---- MODULE Spec2Model ----
(***************************************************************************)
(* A state-machine model of model_train.py: main() selects a device,       *)
(* builds the model, opens a tracked MLflow run, logs the hyperparameters  *)
(* and the summary artifact, and drives train()/test() over the epochs.    *)
(*                                                                         *)
(* What the libraries compute is abstracted as follows.                    *)
(*  - The model parameters are one value of Params; optimizer.step() may   *)
(*    move them to any value of Params.                                    *)
(*  - An example is an (image, label) pair of small integers; the network  *)
(*    is a fixed function Forward of (parameters, image).                  *)
(*  - The per-example cross-entropy is 1 unit on a correctly classified    *)
(*    example and 3 units on a misclassified one; nn.CrossEntropyLoss()    *)
(*    (default reduction) returns the MEAN over the batch.                 *)
(*  - Real numbers are exact rationals <<numerator, denominator>>; a       *)
(*    value formatted with :.4f and parsed back by MLflow is an integer    *)
(*    number of 1/10000 units.                                             *)
(*  - The train loader shuffles, so the content of a training batch is a   *)
(*    nondeterministic choice; the test loader does not shuffle, so test   *)
(*    batch b holds examples b*1000 .. b*1000+999 of the test partition.   *)
(***************************************************************************)
EXTENDS Integers, Sequences, FiniteSets

(* ---- program constants ---- *)
\* variant: the loop written as range(1, epochs)
EpochsOneShort == 10 - 1

Epochs == 10
LogInterval == 100
TrainBatchSize == 64
TestBatchSize == 1000
NumClasses == 10
Scale == 10000

(* ---- bounds of the model ---- *)
NumParams == 2
PatLen == 2
MaxLabel == 1
MaxTrainBatches == 2
MaxTestBatches == 2
MaxLongBatches == 101

Params == 0 .. (NumParams - 1)
NoModel == NumParams
Labels == 0 .. MaxLabel

VARIABLES
  pc,            \* position of main / train / test
  cudaAvail,     \* torch.cuda.is_available()
  mpsAvail,      \* torch.backends.mps.is_available()
  device,        \* main's local `device`
  modelDevice,   \* device the model was moved to
  dataDevice,    \* device the most recent batch was moved to
  trainN,        \* len(train_loader.dataset)
  testN,         \* len(test_loader.dataset)
  testLabels,    \* labels of the test partition (periodic pattern)
  params,        \* the model parameters
  run,           \* the tracked run: "none", "active", "finished", "failed"
  epoch,         \* main's loop variable
  ret,           \* where test() returns to: "loop" or "exit_run"
  batch_idx,     \* number of batches the current call has processed
  correct,       \* local `correct` of the current train()/test() call
  test_loss,     \* local `test_loss` of the current test() call (rational)
  optSteps,      \* optimizer.step() calls made by the current train() call
  out,           \* metric points written by the most recent step
  testMetrics,   \* latest test_loss / test_accuracy of the run record
  trainLog,      \* stepped metric points written by train(), in order
  calls,         \* calls of train()/test() made by main, in order
  paramsLogged,  \* number of mlflow.log_params calls
  artifactsLogged, \* number of mlflow.log_artifact calls
  raisedAt       \* pc at which an exception was raised, "none" if none

vars == <<pc, cudaAvail, mpsAvail, device, modelDevice, dataDevice, trainN,
          testN, testLabels, params, run, epoch, ret, batch_idx, correct,
          test_loss, optSteps, out, testMetrics, trainLog, calls,
          paramsLogged, artifactsLogged, raisedAt>>

(* ---- arithmetic helpers ---- *)
Min(a, b) == IF a < b THEN a ELSE b

RECURSIVE GCD(_, _)
GCD(a, b) == IF b = 0 THEN a ELSE GCD(b, a % b)

\* a rational in lowest terms
Norm(r) ==
  LET g == GCD(r[1], r[2])
  IN  IF g = 0 THEN <<0, 1>> ELSE <<r[1] \div g, r[2] \div g>>

RatAdd(a, b) == Norm(<<a[1] * b[2] + b[1] * a[2], a[2] * b[2]>>)

RatDiv(a, n) == Norm(<<a[1], a[2] * n>>)

\* f'{v:.4f}' read back as a number: v rounded to the nearest 1/10000,
\* a tie going to the even neighbour; the result counts 1/10000 units
Fmt4(r) ==
  LET n == r[1] * Scale
      q == n \div r[2]
      m == n % r[2]
  IN  IF 2 * m < r[2] THEN q
      ELSE IF 2 * m > r[2] THEN q + 1
      ELSE IF q % 2 = 0 THEN q ELSE q + 1

(* ---- data loaders ---- *)
\* len(loader): DataLoader keeps the last, shorter batch
NumBatches(n, bs) == (n + bs - 1) \div bs

\* len(data) of batch b
BatchLen(n, bs, b) == Min(bs, n - b * bs)

\* examples handed out by the first b batches
Processed(n, bs, b) == Min(n, b * bs)

(* ---- the network and the loss ---- *)
TestImage(i) == i % PatLen

TestLabel(i) == testLabels[i % PatLen]

\* output.argmax(dim=1) of CNNModel.forward
Forward(p, x) == (p + x) % NumClasses

\* pred.eq(target).sum() over test examples lo .. hi-1
Hits(p, lo, hi) ==
  Cardinality({i \in lo .. (hi - 1) : Forward(p, TestImage(i)) = TestLabel(i)})

\* cross-entropy summed over a batch of len examples, h of them correct
LossSum(h, len) == h + 3 * (len - h)

\* loss_fn(output, target): nn.CrossEntropyLoss() averages over the batch
BatchLoss(h, len) == Norm(<<LossSum(h, len), len>>)

(* ---- device selection ---- *)
\* variant: the two probes tested in the other order
DeviceChoiceMpsFirst(cuda, mps) ==
  IF mps THEN "mps" ELSE IF cuda THEN "cuda" ELSE "cpu"

DeviceChoice(cuda, mps) ==
  IF cuda THEN "cuda" ELSE IF mps THEN "mps" ELSE "cpu"

(* ---- metric logging in train() ---- *)
\* variant: the test written as (batch_idx + 1) % 100 == 0
LogDueAfterHundred(b) == (b + 1) % LogInterval = 0

LogDue(b) == b % LogInterval = 0

StepIndex(b, e) == (b \div LogInterval) * (e + 1)

Point(k, v, s) == [key |-> k, value |-> v, step |-> s]

(* ---- initial states ---- *)
TrainSizes == {1, (MaxTrainBatches - 1) * TrainBatchSize + (TrainBatchSize \div 2)}

TestSizes == {1, 2, (MaxTestBatches - 1) * TestBatchSize + 1}

LongTrainSizes == {(MaxLongBatches - 1) * TrainBatchSize + 1}

InitCommon ==
  /\ pc = "load"
  /\ device = "none"
  /\ modelDevice = "none"
  /\ dataDevice = "none"
  /\ params = NoModel
  /\ run = "none"
  /\ epoch = 0
  /\ ret = "loop"
  /\ batch_idx = 0
  /\ correct = 0
  /\ test_loss = <<0, 1>>
  /\ optSteps = 0
  /\ out = <<>>
  /\ testMetrics = <<>>
  /\ trainLog = <<>>
  /\ calls = <<>>
  /\ paramsLogged = 0
  /\ artifactsLogged = 0
  /\ raisedAt = "none"

\* a machine without accelerators, every small dataset
Init ==
  /\ InitCommon
  /\ cudaAvail = FALSE
  /\ mpsAvail = FALSE
  /\ trainN \in TrainSizes
  /\ testN \in TestSizes
  /\ testLabels \in [0 .. (PatLen - 1) -> Labels]

\* every outcome of the two probes, one dataset
InitProbes ==
  /\ InitCommon
  /\ cudaAvail \in BOOLEAN
  /\ mpsAvail \in BOOLEAN
  /\ trainN \in TrainSizes
  /\ testN = (MaxTestBatches - 1) * TestBatchSize + 1
  /\ testLabels = [i \in 0 .. (PatLen - 1) |-> 0]

\* long epochs: enough batches for the periodic logging to recur
InitLong ==
  /\ InitCommon
  /\ cudaAvail = FALSE
  /\ mpsAvail = FALSE
  /\ trainN \in LongTrainSizes
  /\ testN = 1
  /\ testLabels = [i \in 0 .. (PatLen - 1) |-> 0]

(* ---- main, before the run ---- *)
LoadData ==
  /\ pc = "load"
  /\ pc' = "device"
  /\ out' = <<>>
  /\ UNCHANGED <<cudaAvail, mpsAvail, device, modelDevice, dataDevice, trainN,
                 testN, testLabels, params, run, epoch, ret, batch_idx,
                 correct, test_loss, optSteps, testMetrics, trainLog, calls,
                 paramsLogged, artifactsLogged, raisedAt>>

SelectDevice ==
  /\ pc = "device"
  /\ device' = DeviceChoice(cudaAvail, mpsAvail)
  /\ pc' = "build"
  /\ out' = <<>>
  /\ UNCHANGED <<cudaAvail, mpsAvail, modelDevice, dataDevice, trainN, testN,
                 testLabels, params, run, epoch, ret, batch_idx, correct,
                 test_loss, optSteps, testMetrics, trainLog, calls,
                 paramsLogged, artifactsLogged, raisedAt>>

BuildModel ==
  /\ pc = "build"
  /\ \E p \in Params : params' = p
  /\ modelDevice' = device
  /\ pc' = "start_run"
  /\ out' = <<>>
  /\ UNCHANGED <<cudaAvail, mpsAvail, device, dataDevice, trainN, testN,
                 testLabels, run, epoch, ret, batch_idx, correct, test_loss,
                 optSteps, testMetrics, trainLog, calls, paramsLogged,
                 artifactsLogged, raisedAt>>

(* ---- main, inside the run ---- *)
\* variant: main goes on without opening a run
StartRunNotOpened ==
  /\ pc = "start_run"
  /\ pc' = "log_params"
  /\ out' = <<>>
  /\ UNCHANGED <<cudaAvail, mpsAvail, device, modelDevice, dataDevice, trainN,
                 testN, testLabels, params, run, epoch, ret, batch_idx,
                 correct, test_loss, optSteps, testMetrics, trainLog, calls,
                 paramsLogged, artifactsLogged, raisedAt>>

StartRun ==
  /\ pc = "start_run"
  /\ run' = "active"
  /\ pc' = "log_params"
  /\ out' = <<>>
  /\ UNCHANGED <<cudaAvail, mpsAvail, device, modelDevice, dataDevice, trainN,
                 testN, testLabels, params, epoch, ret, batch_idx, correct,
                 test_loss, optSteps, testMetrics, trainLog, calls,
                 paramsLogged, artifactsLogged, raisedAt>>

LogParams ==
  /\ pc = "log_params"
  /\ paramsLogged' = paramsLogged + 1
  /\ pc' = "log_summary"
  /\ out' = <<>>
  /\ UNCHANGED <<cudaAvail, mpsAvail, device, modelDevice, dataDevice, trainN,
                 testN, testLabels, params, run, epoch, ret, batch_idx,
                 correct, test_loss, optSteps, testMetrics, trainLog, calls,
                 artifactsLogged, raisedAt>>

LogSummary ==
  /\ pc = "log_summary"
  /\ artifactsLogged' = artifactsLogged + 1
  /\ pc' = "loop"
  /\ out' = <<>>
  /\ UNCHANGED <<cudaAvail, mpsAvail, device, modelDevice, dataDevice, trainN,
                 testN, testLabels, params, run, epoch, ret, batch_idx,
                 correct, test_loss, optSteps, testMetrics, trainLog, calls,
                 paramsLogged, raisedAt>>

\* for epoch in range(1, epochs+1): next epoch, call train
LoopNext ==
  /\ pc = "loop"
  /\ epoch < Epochs
  /\ epoch' = epoch + 1
  /\ pc' = "train"
  /\ out' = <<>>
  /\ UNCHANGED <<cudaAvail, mpsAvail, device, modelDevice, dataDevice, trainN,
                 testN, testLabels, params, run, ret, batch_idx, correct,
                 test_loss, optSteps, testMetrics, trainLog, calls,
                 paramsLogged, artifactsLogged, raisedAt>>

\* the range is exhausted: the final call of test
LoopEnd ==
  /\ pc = "loop"
  /\ epoch >= Epochs
  /\ ret' = "exit_run"
  /\ pc' = "test"
  /\ out' = <<>>
  /\ UNCHANGED <<cudaAvail, mpsAvail, device, modelDevice, dataDevice, trainN,
                 testN, testLabels, params, run, epoch, batch_idx, correct,
                 test_loss, optSteps, testMetrics, trainLog, calls,
                 paramsLogged, artifactsLogged, raisedAt>>

\* the with block is left normally
ExitRun ==
  /\ pc = "exit_run"
  /\ run' = "finished"
  /\ pc' = "done"
  /\ out' = <<>>
  /\ UNCHANGED <<cudaAvail, mpsAvail, device, modelDevice, dataDevice, trainN,
                 testN, testLabels, params, epoch, ret, batch_idx, correct,
                 test_loss, optSteps, testMetrics, trainLog, calls,
                 paramsLogged, artifactsLogged, raisedAt>>

(* ---- train() ---- *)
\* variant: `correct = 0` hoisted out of train, so the count carries over
TrainEnterKeepsCorrect ==
  /\ pc = "train"
  /\ calls' = Append(calls, <<"train", epoch>>)
  /\ batch_idx' = 0
  /\ optSteps' = 0
  /\ pc' = "train_loop"
  /\ out' = <<>>
  /\ UNCHANGED <<cudaAvail, mpsAvail, device, modelDevice, dataDevice, trainN,
                 testN, testLabels, params, run, epoch, ret, correct,
                 test_loss, testMetrics, trainLog, paramsLogged,
                 artifactsLogged, raisedAt>>

TrainEnter ==
  /\ pc = "train"
  /\ calls' = Append(calls, <<"train", epoch>>)
  /\ correct' = 0
  /\ batch_idx' = 0
  /\ optSteps' = 0
  /\ pc' = "train_loop"
  /\ out' = <<>>
  /\ UNCHANGED <<cudaAvail, mpsAvail, device, modelDevice, dataDevice, trainN,
                 testN, testLabels, params, run, epoch, ret, test_loss,
                 testMetrics, trainLog, paramsLogged, artifactsLogged,
                 raisedAt>>

\* one iteration of the loop over train_loader
TrainBatch ==
  /\ pc = "train_loop"
  /\ batch_idx < NumBatches(trainN, TrainBatchSize)
  /\ LET len == BatchLen(trainN, TrainBatchSize, batch_idx)
     IN  \E h \in {0, len}, p \in Params :
           LET loss == BatchLoss(h, len)
               c == correct + h
               train_acc == <<c, trainN>>
               step == StepIndex(batch_idx, epoch)
           IN  /\ dataDevice' = device
               /\ params' = p
               /\ optSteps' = optSteps + 1
               /\ correct' = c
               /\ IF LogDue(batch_idx)
                  THEN /\ out' = << Point("loss", Fmt4(loss), step),
                                    Point("accuracy", Fmt4(train_acc), step) >>
                       /\ trainLog' = trainLog \o
                            << [key |-> "loss", epoch |-> epoch,
                                batch |-> batch_idx, step |-> step,
                                updates |-> optSteps'],
                               [key |-> "accuracy", epoch |-> epoch,
                                batch |-> batch_idx, step |-> step,
                                updates |-> optSteps'] >>
                  ELSE /\ out' = <<>>
                       /\ trainLog' = trainLog
  /\ batch_idx' = batch_idx + 1
  /\ UNCHANGED <<pc, cudaAvail, mpsAvail, device, modelDevice, trainN, testN,
                 testLabels, run, epoch, ret, test_loss, testMetrics, calls,
                 paramsLogged, artifactsLogged, raisedAt>>

\* train_loader is exhausted: train returns and main calls test
TrainReturn ==
  /\ pc = "train_loop"
  /\ batch_idx >= NumBatches(trainN, TrainBatchSize)
  /\ ret' = "loop"
  /\ pc' = "test"
  /\ out' = <<>>
  /\ UNCHANGED <<cudaAvail, mpsAvail, device, modelDevice, dataDevice, trainN,
                 testN, testLabels, params, run, epoch, batch_idx, correct,
                 test_loss, optSteps, testMetrics, trainLog, calls,
                 paramsLogged, artifactsLogged, raisedAt>>

(* ---- test() ---- *)
\* variant: the accumulators are not reset on entry
TestEnterKeepsAccumulators ==
  /\ pc = "test"
  /\ calls' = Append(calls, <<"test", epoch>>)
  /\ batch_idx' = 0
  /\ pc' = "test_loop"
  /\ out' = <<>>
  /\ UNCHANGED <<cudaAvail, mpsAvail, device, modelDevice, dataDevice, trainN,
                 testN, testLabels, params, run, epoch, ret, correct,
                 test_loss, optSteps, testMetrics, trainLog, paramsLogged,
                 artifactsLogged, raisedAt>>

\* variant: the evaluation loop also runs an optimizer update
TestBatchUpdatesModel ==
  /\ pc = "test_loop"
  /\ batch_idx < (testN + TestBatchSize - 1) \div TestBatchSize
  /\ \E p \in 0 .. (NumParams - 1) : params' = p
  /\ dataDevice' = device
  /\ batch_idx' = batch_idx + 1
  /\ out' = <<>>
  /\ UNCHANGED <<pc, cudaAvail, mpsAvail, device, modelDevice, trainN, testN,
                 testLabels, run, epoch, ret, correct, test_loss, optSteps,
                 testMetrics, trainLog, calls, paramsLogged, artifactsLogged,
                 raisedAt>>

TestEnter ==
  /\ pc = "test"
  /\ calls' = Append(calls, <<"test", epoch>>)
  /\ test_loss' = <<0, 1>>
  /\ correct' = 0
  /\ batch_idx' = 0
  /\ pc' = "test_loop"
  /\ out' = <<>>
  /\ UNCHANGED <<cudaAvail, mpsAvail, device, modelDevice, dataDevice, trainN,
                 testN, testLabels, params, run, epoch, ret, optSteps,
                 testMetrics, trainLog, paramsLogged, artifactsLogged,
                 raisedAt>>

\* one iteration of the loop over test_loader, under torch.no_grad()
TestBatch ==
  /\ pc = "test_loop"
  /\ batch_idx < NumBatches(testN, TestBatchSize)
  /\ LET lo == batch_idx * TestBatchSize
         len == BatchLen(testN, TestBatchSize, batch_idx)
         h == Hits(params, lo, lo + len)
     IN  /\ test_loss' = RatAdd(test_loss, BatchLoss(h, len))
         /\ correct' = correct + h
  /\ dataDevice' = device
  /\ batch_idx' = batch_idx + 1
  /\ out' = <<>>
  /\ UNCHANGED <<pc, cudaAvail, mpsAvail, device, modelDevice, trainN, testN,
                 testLabels, params, run, epoch, ret, optSteps, testMetrics,
                 trainLog, calls, paramsLogged, artifactsLogged, raisedAt>>

\* test_loader is exhausted: average, log, print and return
TestFinish ==
  /\ pc = "test_loop"
  /\ batch_idx >= NumBatches(testN, TestBatchSize)
  /\ LET loss == RatDiv(test_loss, testN)
         test_acc == <<correct, testN>>
         pts == << Point("test_loss", Fmt4(loss), 0),
                   Point("test_accuracy", Fmt4(test_acc), 0) >>
     IN  /\ test_loss' = loss
         /\ out' = pts
         /\ testMetrics' = pts
  /\ pc' = ret
  /\ UNCHANGED <<cudaAvail, mpsAvail, device, modelDevice, dataDevice, trainN,
                 testN, testLabels, params, run, epoch, ret, batch_idx,
                 correct, optSteps, trainLog, calls, paramsLogged,
                 artifactsLogged, raisedAt>>

(* ---- exceptions ---- *)
\* variant: the run started without a with block, so nothing ends it
RaiseLeavesRunOpen ==
  /\ pc \notin {"done", "raised"}
  /\ raisedAt' = pc
  /\ pc' = "raised"
  /\ out' = <<>>
  /\ UNCHANGED <<cudaAvail, mpsAvail, device, modelDevice, dataDevice, trainN,
                 testN, testLabels, params, run, epoch, ret, batch_idx,
                 correct, test_loss, optSteps, testMetrics, trainLog, calls,
                 paramsLogged, artifactsLogged>>

\* any statement may raise; nothing in main catches, so the exception
\* unwinds through the with block (which ends an active run as failed) and
\* leaves main
Raise ==
  /\ pc \notin {"done", "raised"}
  /\ raisedAt' = pc
  /\ run' = IF run = "active" THEN "failed" ELSE run
  /\ pc' = "raised"
  /\ out' = <<>>
  /\ UNCHANGED <<cudaAvail, mpsAvail, device, modelDevice, dataDevice, trainN,
                 testN, testLabels, params, epoch, ret, batch_idx, correct,
                 test_loss, optSteps, testMetrics, trainLog, calls,
                 paramsLogged, artifactsLogged>>

Next ==
  \/ LoadData
  \/ SelectDevice
  \/ BuildModel
  \/ StartRun
  \/ LogParams
  \/ LogSummary
  \/ LoopNext
  \/ LoopEnd
  \/ ExitRun
  \/ TrainEnter
  \/ TrainBatch
  \/ TrainReturn
  \/ TestEnter
  \/ TestBatch
  \/ TestFinish
  \/ Raise

Spec == Init /\ [][Next]_vars

SpecLong == InitLong /\ [][Next]_vars

SpecProbes == InitProbes /\ [][Next]_vars

(***************************************************************************)
(* Properties                                                              *)
(***************************************************************************)
\* positions of main inside the with block
RunScope == {"log_params", "log_summary", "loop", "train", "train_loop",
             "test", "test_loop", "exit_run"}

\* C1: in a run of main that raises nothing, train is called exactly 10
\* times with epochs 1, 2, ..., 10 in this order, each call of train is
\* followed by exactly one call of test before the next call of train, and
\* after the 10th epoch's test one more test runs (11 in all) before the run
\* scope is closed.  calls is at every moment a prefix of that sequence of 21
\* calls, and it is the whole sequence once the with block is left.
C1_CallSequence ==
  /\ Len(calls) <= 21
  /\ \A i \in 1 .. Len(calls) :
       calls[i] = IF i = 21 THEN <<"test", 10>>
                  ELSE IF i % 2 = 1 THEN <<"train", (i + 1) \div 2>>
                  ELSE <<"test", i \div 2>>
  /\ (pc = "train_loop" => calls[Len(calls)][1] = "train")
  /\ (pc = "test_loop" => calls[Len(calls)][1] = "test")
  /\ (pc \in {"exit_run", "done"} \/ run = "finished" => Len(calls) = 21)

C1_Witness ==
  /\ pc = "done"
  /\ raisedAt = "none"
  /\ run = "finished"
  /\ Len(calls) = 21

\* C2: once the run has been opened it is closed on every exit path of
\* main: finished on normal completion, failed when an exception is raised
\* anywhere inside the with block; the exception still leaves main (main
\* never completes normally after a raise) and nothing runs after it.
C2_RunClosedOnEveryExit ==
  /\ (run = "active" <=> pc \in RunScope)
  /\ (pc = "done" => run = "finished" /\ raisedAt = "none")
  /\ (raisedAt # "none" => pc = "raised")
  /\ (pc = "raised" /\ raisedAt \in RunScope => run = "failed")
  /\ (pc = "raised" /\ raisedAt \notin RunScope => run = "none")
  /\ (pc = "raised" => ~ENABLED Next)

C2_Witness ==
  /\ pc = "raised"
  /\ raisedAt = "train_loop"
  /\ run = "failed"
  /\ epoch = 2
  /\ batch_idx = 1

\* C8: the device is the one the priority cuda > mps > cpu gives for the
\* two probes, it is chosen before the model is built, and the model and
\* every batch of every train and test call are on that device.
C8_DevicePriority ==
  /\ (pc \notin {"load", "device"} /\ raisedAt \notin {"load", "device"}
        => device # "none")
  /\ (device # "none" =>
        /\ (cudaAvail => device = "cuda")
        /\ (~cudaAvail /\ mpsAvail => device = "mps")
        /\ (~cudaAvail /\ ~mpsAvail => device = "cpu"))
  /\ (modelDevice # "none" => device # "none" /\ modelDevice = device)
  /\ (params # NoModel => modelDevice # "none")
  /\ (dataDevice # "none" => dataDevice = device /\ dataDevice = modelDevice)
  /\ (pc \in {"train_loop", "test_loop"} /\ batch_idx > 0 => dataDevice # "none")

C8_Witness ==
  /\ cudaAvail
  /\ mpsAvail
  /\ pc = "test_loop"
  /\ batch_idx = 2
  /\ dataDevice = "cuda"

\* C3: the model parameters change only in the optimizer update of a
\* training batch (one update per batch); no step of test and no other step
\* of main changes them.  (BuildModel creates them, before any of this.)
C3_OnlyOptimizerChangesParams ==
  [][ /\ (params' # params =>
            \/ pc = "build" /\ params = NoModel
            \/ /\ pc = "train_loop"
               /\ pc' = "train_loop"
               /\ batch_idx' = batch_idx + 1
               /\ optSteps' = optSteps + 1)
      /\ (pc = "train_loop" /\ batch_idx' # batch_idx =>
            optSteps' = optSteps + 1 /\ optSteps' = batch_idx')
      /\ (pc \in {"test", "test_loop", "start_run", "log_params",
                  "log_summary", "loop", "train", "exit_run"} =>
            params' = params) ]_vars

C3_Witness ==
  /\ pc = "loop"
  /\ epoch = 2
  /\ optSteps = 2
  /\ calls[Len(calls)] = <<"test", 2>>
  /\ testMetrics # <<>>
  /\ params = 1

\* C4: test called twice in a row on an unchanged model and loader logs the
\* same loss and the same accuracy: the final test of main (returning to
\* exit_run) leaves the run record's test metrics as the 10th epoch's test
\* wrote them; and every call of test starts its accumulators from zero.
C4_EvaluationIdempotent ==
  /\ [](pc = "test_loop" /\ batch_idx = 0 => correct = 0 /\ test_loss = <<0, 1>>)
  /\ [][ pc = "test_loop" /\ pc' = "exit_run" =>
           /\ testMetrics # <<>>
           /\ testMetrics' = testMetrics
           /\ out' = testMetrics ]_vars

C4_Witness ==
  /\ pc = "exit_run"
  /\ testN > TestBatchSize
  /\ Len(out) = 2
  /\ out[1].key = "test_loss"
  /\ out[1].value > 0
  /\ out[2].value > 0
  /\ out[2].value < Scale

\* C7: every write to the run record happens while the run is open; the
\* hyperparameters are logged exactly once and the summary artifact exactly
\* once, in this order, after the run is opened and before the first call of
\* train; every metric point is written between opening and closing.
C7_WritesInsideRun ==
  /\ [](/\ paramsLogged <= 1
        /\ artifactsLogged <= paramsLogged
        /\ (paramsLogged > 0 => run # "none")
        /\ (Len(calls) > 0 => paramsLogged = 1 /\ artifactsLogged = 1)
        /\ (pc \in {"exit_run", "done"} => paramsLogged = 1 /\ artifactsLogged = 1)
        /\ (run = "none" => testMetrics = <<>> /\ trainLog = <<>> /\ out = <<>>))
  /\ [][ \/ paramsLogged' # paramsLogged
         \/ artifactsLogged' # artifactsLogged
         \/ out' # <<>>
         \/ trainLog' # trainLog
         \/ testMetrics' # testMetrics
         => run = "active" /\ run' = "active" ]_vars

C7_Witness ==
  /\ run = "finished"
  /\ paramsLogged = 1
  /\ artifactsLogged = 1
  /\ Len(trainLog) = 20
  /\ Len(testMetrics) = 2

\* C5: the loss test reports is the mean loss per test example (the loss
\* summed over all test examples divided by their number) and the accuracy
\* it reports is the number of correctly predicted test examples divided by
\* their number, both as formatted to 4 decimals.
C5_MeanLossPerExample ==
  Len(out) = 2 /\ out[1].key = "test_loss" =>
    LET h == Hits(params, 0, testN)
    IN  /\ out[1].value = Fmt4(<<LossSum(h, testN), testN>>)
        /\ out[2].key = "test_accuracy"
        /\ out[2].value = Fmt4(<<h, testN>>)

\* number of batches of train whose index is a multiple of 100 among the
\* first n batches
DueAmong(n) == (n + 99) \div 100

\* loss/accuracy pairs train has written by now: all of the epochs before
\* this one, and those of this epoch's batches processed so far
PairsWritten ==
  LET B == (trainN + 63) \div 64
  IN  IF pc \in {"load", "device", "build", "start_run", "log_params",
                 "log_summary"} THEN 0
      ELSE IF pc = "train" THEN DueAmong(B) * (epoch - 1)
      ELSE IF pc = "train_loop"
        THEN DueAmong(B) * (epoch - 1) + DueAmong(batch_idx)
      ELSE DueAmong(B) * epoch

\* C6: in one call of train over B batches with epoch e, a loss point and an
\* accuracy point are written exactly for the batches whose index is a
\* multiple of 100 (batch 0 included) and for no other, each after that
\* batch's optimizer update, both with step floor(batch / 100) * (e + 1); a
\* finished epoch has written ceil(B / 100) points of each.  So trainLog
\* is, pair by pair, epoch by epoch, the batches 0, 100, 200, ... of each
\* epoch.
C6_PeriodicLogging ==
  /\ (pc # "raised" => Len(trainLog) = 2 * PairsWritten)
  /\ \A i \in 1 .. Len(trainLog) :
       LET r == trainLog[i]
           q == (i - 1) \div 2
           K == DueAmong((trainN + 63) \div 64)
       IN  /\ r.key = IF i % 2 = 1 THEN "loss" ELSE "accuracy"
           /\ r.epoch = (q \div K) + 1
           /\ r.batch = (q % K) * 100
           /\ r.step = (r.batch \div 100) * (r.epoch + 1)
           /\ r.updates = r.batch + 1
  /\ (pc = "train_loop" /\ batch_idx > 0 =>
        IF (batch_idx - 1) % 100 = 0
        THEN /\ Len(out) = 2
             /\ out[1].key = "loss"
             /\ out[2].key = "accuracy"
             /\ out[1].step = ((batch_idx - 1) \div 100) * (epoch + 1)
             /\ out[2].step = out[1].step
        ELSE out = <<>>)

C6_Witness ==
  /\ pc = "train_loop"
  /\ epoch = 3
  /\ batch_idx = 101
  /\ Len(out) = 2
  /\ out[1].key = "loss"
  /\ out[1].step = 4
  /\ trainLog[Len(trainLog)].epoch = 3
  /\ trainLog[Len(trainLog)].batch = 100

\* C9: across one run of main the step indices of the training loss points
\* are strictly increasing in the order the points are written (so no two
\* points share a step index), and likewise for the training accuracy points.
C9_StepsStrictlyIncrease ==
  \A i, j \in 1 .. Len(trainLog) :
    i < j /\ trainLog[i].key = trainLog[j].key =>
      trainLog[i].step < trainLog[j].step

\* state part shared by both readings of C10
CorrectWithinProcessed ==
  /\ (pc = "train_loop" =>
        /\ 0 <= correct
        /\ correct <= Processed(trainN, TrainBatchSize, batch_idx)
        /\ Processed(trainN, TrainBatchSize, batch_idx) <= trainN
        /\ (batch_idx = 0 => correct = 0))
  /\ (pc = "test_loop" =>
        /\ 0 <= correct
        /\ correct <= Processed(testN, TestBatchSize, batch_idx)
        /\ Processed(testN, TestBatchSize, batch_idx) <= testN
        /\ (batch_idx = 0 => correct = 0))
  /\ \A i \in 1 .. Len(out) :
       out[i].key \in {"accuracy", "test_accuracy"} =>
         0 <= out[i].value /\ out[i].value <= 10000

CorrectNeverDecreases ==
  pc' = pc /\ pc \in {"train_loop", "test_loop"} => correct' >= correct

\* C10 as stated: in every call of train and of test the counter starts at
\* 0, never decreases and stays within 0 <= correct <= examples processed
\* <= partition size; every accuracy logged lies in [0, 1]; and the interim
\* training accuracy logged at batch b is at most (b + 1) * 64 / partition
\* size.
C10_AsStated ==
  /\ [](CorrectWithinProcessed)
  /\ [](pc = "train_loop" /\ Len(out) = 2 =>
          out[2].value * trainN <= batch_idx * TrainBatchSize * 10000)
  /\ [][CorrectNeverDecreases]_vars

\* C10 amended: as above, but the bound (b + 1) * 64 / partition size holds
\* for the accuracy train computes; the value logged is that accuracy
\* rounded to 4 decimals and is at most the bound rounded to 4 decimals.
C10_CorrectCounter ==
  /\ [](CorrectWithinProcessed)
  /\ [](pc = "train_loop" /\ Len(out) = 2 =>
          /\ correct <= batch_idx * TrainBatchSize
          /\ out[2].value = Fmt4(<<correct, trainN>>)
          /\ out[2].value <= Fmt4(<<batch_idx * TrainBatchSize, trainN>>))
  /\ [][CorrectNeverDecreases]_vars

C10_Witness ==
  /\ pc = "train_loop"
  /\ epoch = 2
  /\ batch_idx = 1
  /\ trainN > TrainBatchSize
  /\ correct = TrainBatchSize
  /\ Len(out) = 2
  /\ out[2].key = "accuracy"
  /\ out[2].value > 0
  /\ out[2].value < 10000

====
